---- MODULE Spec2Model ----
(***************************************************************************)
(* Self-intersection detection of a triangulated polyhedron:               *)
(* CGAL::self_intersect (both overloads), internal::Intersect_facets and   *)
(* internal::Throw_at_output.                                              *)
(*                                                                         *)
(* A facet f is the sequence verts[f] of the head vertices of its boundary *)
(* half-edges, starting at the representative half-edge f->halfedge().    *)
(* The half-edge <<f, i>> is the i-th one (i = 0 for the representative);  *)
(* its head is verts[f][i+1] and its tail is the head of its predecessor.  *)
(* glue is the set of edges: pairs {h, k} of half-edges that are each      *)
(* other's opposite.  A half-edge in no pair has a border opposite, whose  *)
(* facet is the null handle.                                               *)
(***************************************************************************)
EXTENDS Integers, Sequences, FiniteSets, TLC

VARIABLES
    verts,      \* the mesh: facet -> head vertices of its half-edges
    glue,       \* the mesh: the opposite() pairing of half-edges
    pt,         \* the mesh: vertex -> point (coordinate triple)
    mode,       \* "enum": self_intersect(polyhedron, out); "exist": bool overload
    checks,     \* TRUE iff CGAL_assertion is compiled in (no NDEBUG)
    pc,         \* position in self_intersect: "start", "boxes", "scan", "done"
    boxes,      \* std::vector<Box> boxes
    todo,       \* broad phase: overlapping box pairs not visited yet
    out,        \* enumeration mode: the triangles written through the iterator
    result,     \* "pending", "void", "true", "false" or "raised"
    error,      \* exception leaving the entry point: "none", "assertion", ...
    trace       \* history: one record per callback invocation

vars == <<verts, glue, pt, mode, checks, pc, boxes, todo, out, result, error, trace>>

mesh == <<verts, glue, pt, mode, checks>>

----------------------------------------------------------------------------
(* Bounds of the explored inputs *)

NumFacets == 3       \* facets of the strip meshes
NumVertices == 6     \* vertex handles of the two-facet meshes
NumPoints == 5       \* lattice points the free-geometry meshes draw from
SampleDen == 2       \* triangles are sampled at barycentric weights k / SampleDen

----------------------------------------------------------------------------
(* The half-edge data structure, as the code reads it *)

Facets == DOMAIN verts

NullFacet == 0

NullHalfedge == <<0, 0>>               \* Halfedge_const_handle()

Degree(f) == Len(verts[f])

halfedge(f) == <<f, 0>>                \* f->halfedge()

next(h) == <<h[1], (h[2] + 1) % Degree(h[1])>>

vertex(h) == verts[h[1]][h[2] + 1]     \* h->vertex()

point(h) == pt[vertex(h)]              \* h->vertex()->point()

\* h->opposite()->facet(): the null handle when the opposite is a border half-edge
OppositeFacet(h) ==
    IF \E e \in glue : h \in e
    THEN (CHOOSE k \in UNION {e \in glue : h \in e} : k # h)[1]
    ELSE NullFacet

IsPureTriangle == \A f \in Facets : Degree(f) = 3

----------------------------------------------------------------------------
(* Geometry kernel values *)

Triangle(h) == <<point(h), point(next(h)), point(next(next(h)))>>

SegmentAtVertex(h) == <<point(h), point(next(h))>>

\* lines 92-95: the edge of h's facet that does not touch h's head
Segment(h) == <<point(next(h)), point(next(next(h)))>>

\* What a kernel predicate can do when called: answer, or raise a failure
Answers == {"yes", "no", "fail"}

----------------------------------------------------------------------------
(* internal::Intersect_facets::operator() *)

SharedEdgeTwo(h, c) ==
    \/ OppositeFacet(h) = c
    \/ OppositeFacet(next(h)) = c

\* lines 44-46: one of b's three half-edges has its opposite owned by c
SharedEdge(h, c) ==
    \/ OppositeFacet(h) = c
    \/ OppositeFacet(next(h)) = c
    \/ OppositeFacet(next(next(h))) = c

\* lines 53-58 (and 63-68, 72-77): three independent ifs against g, g->next(),
\* g->next()->next(); a later equal vertex overwrites an earlier one
RowScan(h, g) ==
    LET v1 == IF vertex(h) = vertex(g) THEN g ELSE NullHalfedge
        v2 == IF vertex(h) = vertex(next(g)) THEN next(g) ELSE v1
        v3 == IF vertex(h) = vertex(next(next(g))) THEN next(next(g)) ELSE v2
    IN  v3

ColumnScan(h, g) ==
    LET v1 == IF vertex(g) = vertex(h) THEN h ELSE NullHalfedge
        v2 == IF vertex(g) = vertex(next(h)) /\ v1 = NullHalfedge THEN next(h) ELSE v1
        v3 == IF vertex(g) = vertex(next(next(h))) /\ v2 = NullHalfedge
              THEN next(next(h)) ELSE v2
    IN  v3

FindSharedByColumn(h0, g) ==
    LET c0 == ColumnScan(h0, g)
        c1 == ColumnScan(h0, next(g))
        c2 == ColumnScan(h0, next(next(g)))
    IN  IF c0 # NullHalfedge THEN [h |-> c0, v |-> g]
        ELSE IF c1 # NullHalfedge THEN [h |-> c1, v |-> next(g)]
        ELSE IF c2 # NullHalfedge THEN [h |-> c2, v |-> next(next(g))]
        ELSE [h |-> next(next(h0)), v |-> NullHalfedge]

\* lines 50-79: h advances only while no shared vertex has been found
FindShared(h0, g) ==
    LET r0 == RowScan(h0, g)
        h1 == next(h0)
        r1 == RowScan(h1, g)
        h2 == next(h1)
        r2 == RowScan(h2, g)
    IN  IF r0 # NullHalfedge THEN [h |-> h0, v |-> r0]
        ELSE IF r1 # NullHalfedge THEN [h |-> h1, v |-> r1]
        ELSE [h |-> h2, v |-> r2]

Query(pred, x, y, ans) == [pred |-> pred, x |-> x, y |-> y, ans |-> ans]

\* lines 81-107, h and v pointing to the shared vertex (the assertion of line
\* 84 holds by RowScan): do_intersect(t1,s2), and only when it is false
\* do_intersect(t2,s1)
SharedVertexTest(h, v, k1, k2) ==
    LET q1 == Query("triangle_segment", Triangle(h), Segment(v), k1)
        q2 == Query("triangle_segment", Triangle(v), Segment(h), k2)
    IN  IF k1 = "fail" THEN [queries |-> <<q1>>, verdict |-> "fail"]
        ELSE IF k1 = "yes" THEN [queries |-> <<q1>>, verdict |-> "yes"]
        ELSE [queries |-> <<q1, q2>>, verdict |-> k2]

GeneralTestBoxesOnly(h, g, k1) ==
    [queries |-> <<Query("triangle_triangle", Triangle(h), Triangle(g), k1)>>,
     verdict |-> IF k1 = "fail" THEN "fail" ELSE "yes"]

\* lines 112-122: do_intersect(t1, t2)
GeneralTest(h, g, k1) ==
    [queries |-> <<Query("triangle_triangle", Triangle(h), Triangle(g), k1)>>,
     verdict |-> k1]

\* The narrow phase on facets b and c, the kernel answering k1 to the first
\* predicate call and k2 to the second.  t1, t2 are the triangles it would write.
IntersectFacets(b, c, k1, k2) ==
    LET h0 == halfedge(b)
        g  == halfedge(c)
        s  == FindShared(h0, g)
    IN  IF SharedEdge(h0, c)
        THEN [path |-> "edge", h |-> h0, v |-> NullHalfedge, queries |-> <<>>,
              verdict |-> "no", t1 |-> <<>>, t2 |-> <<>>]
        ELSE IF s.v # NullHalfedge
        THEN LET r == SharedVertexTest(s.h, s.v, k1, k2)
             IN  [path |-> "vertex", h |-> s.h, v |-> s.v, queries |-> r.queries,
                  verdict |-> r.verdict, t1 |-> Triangle(s.h), t2 |-> Triangle(s.v)]
        ELSE LET r == GeneralTest(s.h, g, k1)
             IN  [path |-> "general", h |-> s.h, v |-> NullHalfedge,
                  queries |-> r.queries, verdict |-> r.verdict,
                  t1 |-> Triangle(s.h), t2 |-> Triangle(g)]

----------------------------------------------------------------------------
(* The output iterator *)

ThrowAtOutputSilent(t) == "none"

\* internal::Throw_at_output::operator(): the exception it raises
ThrowAtOutput(t) == "Throw_at_output_exception"

\* *m_iterator++ = t: enumeration mode appends; existence mode runs Throw_at_output
Write(o, t) ==
    IF mode = "enum"
    THEN [out |-> Append(o, t), thrown |-> "none"]
    ELSE [out |-> o, thrown |-> ThrowAtOutput(t)]

EmitFirstOnly(o, t1, t2) == Write(o, t1)

\* lines 99-100: t1 then t2, the second only if the first write returned
Emit(o, t1, t2) ==
    LET w1 == Write(o, t1)
    IN  IF w1.thrown # "none" THEN w1 ELSE Write(w1.out, t2)

\* What one callback invocation leaves: the output, and the exception in flight
CallbackEffect(o, r) ==
    IF r.verdict = "yes" THEN Emit(o, r.t1, r.t2)
    ELSE IF r.verdict = "fail" THEN [out |-> o, thrown |-> "predicate_failure"]
    ELSE [out |-> o, thrown |-> "none"]

----------------------------------------------------------------------------
(* The entry points *)

ExistCatchAll(thrown) == [result |-> "true", error |-> "none"]

ExistCatchNothing(thrown) == [result |-> "raised", error |-> thrown]

\* bool self_intersect: catch(Throw_at_output_exception&) returns true, any
\* other exception leaves the function
ExistCatch(thrown) ==
    IF thrown = "Throw_at_output_exception"
    THEN [result |-> "true", error |-> "none"]
    ELSE [result |-> "raised", error |-> thrown]

\* How an exception thrown below the entry point leaves it
Unwind(thrown) ==
    IF mode = "exist" THEN ExistCatch(thrown)
    ELSE [result |-> "raised", error |-> thrown]

\* Point_3::bbox() and Bbox_3::operator+
PointBbox(p) == [lo |-> p, hi |-> p]

Min(a, b) == IF a <= b THEN a ELSE b

Max(a, b) == IF a >= b THEN a ELSE b

BboxPlus(a, b) ==
    [lo |-> [i \in 1..3 |-> Min(a.lo[i], b.lo[i])],
     hi |-> [i \in 1..3 |-> Max(a.hi[i], b.hi[i])]]

BoxOfTwoVertices(f) ==
    LET bb == BboxPlus(PointBbox(point(halfedge(f))),
                       PointBbox(point(next(halfedge(f)))))
    IN  [lo |-> bb.lo, hi |-> bb.hi, handle |-> f]

\* lines 166-169: the box of facet f, tagged with its handle
Box(f) ==
    LET bb == BboxPlus(BboxPlus(PointBbox(point(halfedge(f))),
                                PointBbox(point(next(halfedge(f))))),
                       PointBbox(point(next(next(halfedge(f))))))
    IN  [lo |-> bb.lo, hi |-> bb.hi, handle |-> f]

\* Closed boxes intersect: they overlap or touch on every axis
DoOverlap(b, c) == \A i \in 1..3 : b.lo[i] <= c.hi[i] /\ c.lo[i] <= b.hi[i]

\* box_self_intersection_d: the unordered pairs of distinct boxes it reports
BoxSelfIntersection(bs) ==
    {{i, j} : i \in 1..Len(bs), j \in 1..Len(bs)} \ {{i} : i \in 1..Len(bs)}

CandidatePairs(bs) ==
    {pr \in BoxSelfIntersection(bs) :
        \A i \in pr : \A j \in pr : DoOverlap(bs[i], bs[j])}

CgalAssertionIgnored(cond) == TRUE

\* CGAL_assertion(cond) lets the caller go on: cond holds, or the macro expands
\* to nothing (NDEBUG, CGAL_NO_ASSERTIONS)
CgalAssertion(cond) == ~checks \/ cond

\* CGAL_assertion(polyhedron.is_pure_triangle()) fails
AssertionFails ==
    /\ pc = "start"
    /\ ~CgalAssertion(IsPureTriangle)
    /\ pc' = "done"
    /\ result' = Unwind("assertion_failure").result
    /\ error' = Unwind("assertion_failure").error
    /\ UNCHANGED <<mesh, boxes, todo, out, trace>>

\* the assertion holds, or is compiled out
AssertionPasses ==
    /\ pc = "start"
    /\ CgalAssertion(IsPureTriangle)
    /\ pc' = "boxes"
    /\ UNCHANGED <<mesh, boxes, todo, out, result, error, trace>>

\* one iteration of the loop over the facets (lines 163-169)
PushBox ==
    /\ pc = "boxes"
    /\ Len(boxes) < Cardinality(Facets)
    /\ boxes' = Append(boxes, Box(Len(boxes) + 1))
    /\ UNCHANGED <<mesh, pc, todo, out, result, error, trace>>

\* the box pointers are collected and box_self_intersection_d is entered
StartScan ==
    /\ pc = "boxes"
    /\ Len(boxes) = Cardinality(Facets)
    /\ todo' = CandidatePairs(boxes)
    /\ pc' = "scan"
    /\ UNCHANGED <<mesh, boxes, out, result, error, trace>>

\* the broad phase reports one more pair, in either argument order, and the
\* callback runs on it; an exception it raises unwinds to the entry point
Callback ==
    /\ pc = "scan"
    /\ \E pr \in todo : \E bi \in pr : \E ci \in pr \ {bi} :
       \E k1 \in Answers : \E k2 \in Answers :
          LET b == boxes[bi].handle
              c == boxes[ci].handle
              r == IntersectFacets(b, c, k1, k2)
              e == CallbackEffect(out, r)
          IN  /\ todo' = todo \ {pr}
              /\ out' = e.out
              /\ trace' = Append(trace,
                     [b |-> b, c |-> c, path |-> r.path, h |-> r.h, v |-> r.v,
                      queries |-> r.queries, verdict |-> r.verdict,
                      t1 |-> r.t1, t2 |-> r.t2])
              /\ IF e.thrown = "none"
                 THEN UNCHANGED <<pc, result, error>>
                 ELSE /\ pc' = "done"
                      /\ result' = Unwind(e.thrown).result
                      /\ error' = Unwind(e.thrown).error
    /\ UNCHANGED <<mesh, boxes>>

\* box_self_intersection_d returns: void overload returns, bool overload
\* falls out of the try block and returns false
ScanExhausted ==
    /\ pc = "scan"
    /\ todo = {}
    /\ pc' = "done"
    /\ result' = IF mode = "enum" THEN "void" ELSE "false"
    /\ UNCHANGED <<mesh, boxes, todo, out, error, trace>>

----------------------------------------------------------------------------
(* The meshes explored *)

Rot(s, r) == [i \in 1..Len(s) |-> s[((i - 1 + r) % Len(s)) + 1]]

\* A strip of quads split into two triangles each, consecutive quads meeting at
\* one vertex: facets 2q+1 and 2q+2 have an edge in common, facet 2q+2 and
\* 2q+3 a vertex, the others nothing
StripVerts(f) ==
    LET base == 3 * ((f - 1) \div 2)
    IN  IF f % 2 = 1 THEN <<base + 1, base + 2, base + 3>>
                     ELSE <<base + 3, base + 2, base + 4>>

\* The point of vertex v of a strip: only facets next to each other in the
\* strip have overlapping boxes
Pt(v) == <<v, v % 2, v % 3>>

\* The point of vertex v of a two-facet mesh: corners of the unit cube, those
\* of vertices 1, 2, 3 spanning it, so that the two boxes always overlap
CubeCorners ==
    <<<<0, 0, 0>>, <<1, 1, 0>>, <<0, 1, 1>>, <<1, 0, 1>>,
      <<1, 0, 0>>, <<0, 0, 1>>, <<0, 1, 0>>, <<1, 1, 1>>>>

CubePt(v) == CubeCorners[((v - 1) % 8) + 1]

VerticesOf(vs) == UNION {{vs[f][i] : i \in 1..Len(vs[f])} : f \in DOMAIN vs}

HalfedgesIn(vs) == UNION {{<<f, i>> : i \in 0..(Len(vs[f]) - 1)} : f \in DOMAIN vs}

HeadIn(vs, h) == vs[h[1]][h[2] + 1]

TailIn(vs, h) == vs[h[1]][((h[2] + Len(vs[h[1]]) - 1) % Len(vs[h[1]])) + 1]

\* Two half-edges of different facets that can be each other's opposite
Compatible(vs) ==
    {e \in SUBSET HalfedgesIn(vs) :
        /\ Cardinality(e) = 2
        /\ \A h \in e : \A k \in e \ {h} :
              /\ h[1] # k[1]
              /\ HeadIn(vs, h) = TailIn(vs, k)
              /\ TailIn(vs, h) = HeadIn(vs, k)}

\* Every way of pairing opposites: each half-edge in at most one edge
Gluings(vs) ==
    {G \in SUBSET Compatible(vs) :
        \A e1 \in G : \A e2 \in G : e1 # e2 => e1 \cap e2 = {}}

Distinct(s) == \A i \in 1..Len(s) : \A j \in 1..Len(s) : i # j => s[i] # s[j]

\* the triangles over n vertex handles: the two ends of an edge are different
\* vertices, so the three corners are different handles
FacetShapes(n) == {s \in [1..3 -> 1..n] : Distinct(s)}

Grid == {CubePt(i) : i \in 1..NumPoints}

Key(p) == CHOOSE i \in 1..NumPoints : CubePt(i) = p

\* the three points of a facet, up to the order of its vertices
Corners ==
    {t \in Grid \X Grid \X Grid : Key(t[1]) <= Key(t[2]) /\ Key(t[2]) <= Key(t[3])}

TriKey(t) == (Key(t[1]) * (NumPoints + 1) + Key(t[2])) * (NumPoints + 1) + Key(t[3])

InitRun ==
    /\ pc = "start"
    /\ boxes = <<>>
    /\ todo = {}
    /\ out = <<>>
    /\ result = "pending"
    /\ error = "none"
    /\ trace = <<>>

\* strips of NumFacets facets, every choice of representative half-edge,
\* every gluing; with quad the last facet has a fourth half-edge, so the mesh
\* is not a pure triangulation
InitStrip ==
    /\ \E r \in 0..2 : \E quad \in BOOLEAN :
          verts = [f \in 1..NumFacets |->
                      Rot(IF quad /\ f = NumFacets
                          THEN Append(StripVerts(f), 3 * ((f - 1) \div 2) + 4 + ((f - 1) % 2))
                          ELSE StripVerts(f), r)]
    /\ glue \in Gluings(verts)
    /\ pt = [v \in VerticesOf(verts) |-> Pt(v)]
    /\ mode \in {"enum", "exist"}
    /\ checks \in BOOLEAN

\* two triangles over NumVertices vertex handles, every gluing
InitPair ==
    /\ \E s \in FacetShapes(NumVertices) : verts = <<<<1, 2, 3>>, s>>
    /\ glue \in Gluings(verts)
    /\ pt = [v \in VerticesOf(verts) |-> CubePt(v)]
    /\ mode \in {"enum", "exist"}
    /\ checks = TRUE

\* two triangles with no vertex handle in common and free coordinates
\* (the order of the two facets does not matter to any step)
InitGeometry ==
    /\ verts = <<<<1, 2, 3>>, <<4, 5, 6>>>>
    /\ glue = {}
    /\ \E ta \in Corners : \E tb \in Corners :
          /\ TriKey(ta) <= TriKey(tb)
          /\ pt = [v \in 1..6 |-> IF v <= 3 THEN ta[v] ELSE tb[v - 3]]
    /\ mode = "enum"
    /\ checks = TRUE

Init == (InitStrip \/ InitPair \/ InitGeometry) /\ InitRun

Step ==
    \/ AssertionFails
    \/ AssertionPasses
    \/ PushBox
    \/ StartScan
    \/ Callback
    \/ ScanExhausted

Spec == Init /\ [][Step]_vars

----------------------------------------------------------------------------
(* Vocabulary of the properties, read off the mesh alone *)

Entries == 1..Len(trace)

Corner(f, i) == verts[f][i]                  \* i-th vertex of f, from its representative

TrianglePts(f) == <<pt[Corner(f, 1)], pt[Corner(f, 2)], pt[Corner(f, 3)]>>

SameTriangle(t, u) == t = u \/ t = Rot(u, 1) \/ t = Rot(u, 2)

\* the facets are the two sides of one edge
EdgeAdjacent(a, b) ==
    \E e \in glue : \E h \in e : \E k \in e : h[1] = a /\ k[1] = b

SharedVertices(a, b) ==
    {Corner(a, i) : i \in 1..3} \cap {Corner(b, j) : j \in 1..3}

\* the comparisons in the order (a0,b0), (a0,b1), (a0,b2), (a1,b0), ..., (a2,b2)
ScanOrder == [n \in 1..9 |-> <<((n - 1) \div 3) + 1, ((n - 1) % 3) + 1>>]

EqualAt(a, b, n) == Corner(a, ScanOrder[n][1]) = Corner(b, ScanOrder[n][2])

\* the first equal pair <<i, j>> of that order
FirstEqualPair(a, b) ==
    ScanOrder[CHOOSE n \in 1..9 :
                 EqualAt(a, b, n) /\ \A m \in 1..(n - 1) : ~EqualAt(a, b, m)]

\* the two points of f's edge opposite its i-th vertex
OppositeEdge(f, i) == {pt[Corner(f, k)] : k \in (1..3) \ {i}}

IsTriSeg(q, f, seg) ==
    /\ q.pred = "triangle_segment"
    /\ SameTriangle(q.x, TrianglePts(f))
    /\ {q.y[1], q.y[2]} = seg

IsTriTri(q, a, b) ==
    /\ q.pred = "triangle_triangle"
    /\ SameTriangle(q.x, TrianglePts(a))
    /\ SameTriangle(q.y, TrianglePts(b))

Answered(e, ans) == \E k \in 1..Len(e.queries) : e.queries[k].ans = ans

----------------------------------------------------------------------------
(* C4: two facets that share a full edge get the verdict no-intersection,   *)
(* whichever of them the broad phase passes first, and no geometric         *)
(* predicate is evaluated for the pair.                                     *)
C4_SharedEdgeExcluded ==
    IsPureTriangle =>
        \A n \in Entries :
            EdgeAdjacent(trace[n].b, trace[n].c) =>
                /\ trace[n].verdict = "no"
                /\ trace[n].queries = <<>>
                /\ (n = Len(trace) => error = "none" /\ result \notin {"true", "raised"})

\* the pair was passed with the higher facet first, its shared edge being the
\* last of the three half-edges inspected
C4_Witness ==
    /\ IsPureTriangle
    /\ \E n \in Entries :
          /\ trace[n].b > trace[n].c
          /\ EdgeAdjacent(trace[n].b, trace[n].c)
          /\ OppositeFacet(next(next(halfedge(trace[n].b)))) = trace[n].c

(* C9: the shared-vertex scan compares in the order (a0,b0), (a0,b1), ...,  *)
(* (a2,b2) from the representative half-edges and takes the first equal     *)
(* pair: h and v are the half-edges of A and B pointing to it, also when    *)
(* the facets have more than one vertex in common.                          *)
C9_FirstEqualPair ==
    IsPureTriangle =>
        \A n \in Entries :
            LET a == trace[n].b
                b == trace[n].c
            IN  ~EdgeAdjacent(a, b) =>
                    IF SharedVertices(a, b) # {}
                    THEN /\ trace[n].path = "vertex"
                         /\ trace[n].h = <<a, FirstEqualPair(a, b)[1] - 1>>
                         /\ trace[n].v = <<b, FirstEqualPair(a, b)[2] - 1>>
                    ELSE /\ trace[n].path = "general"
                         /\ trace[n].v = NullHalfedge

\* two common vertices, no common edge, and the first equal pair is not the
\* one a scan of B's vertices first would find
C9_Witness ==
    /\ IsPureTriangle
    /\ \E n \in Entries :
          LET a == trace[n].b
              b == trace[n].c
          IN  /\ ~EdgeAdjacent(a, b)
              /\ Cardinality(SharedVertices(a, b)) >= 2
              /\ FirstEqualPair(a, b)[1] > 1
              /\ FirstEqualPair(a, b)[2] > FirstEqualPair(b, a)[1]

(* C5: for a pair with no shared edge and a shared vertex V the verdict is  *)
(* intersection iff triangle A intersects eB or triangle B intersects eA    *)
(* (the edges opposite V); the triangle-triangle predicate is not called.   *)
C5_SharedVertexRule ==
    IsPureTriangle =>
        \A n \in Entries :
            LET e == trace[n]
                a == e.b
                b == e.c
                m == FirstEqualPair(a, b)
                q == e.queries
            IN  (~EdgeAdjacent(a, b) /\ SharedVertices(a, b) # {}) =>
                    /\ Len(q) \in {1, 2}
                    /\ IsTriSeg(q[1], a, OppositeEdge(b, m[2]))
                    /\ Len(q) = 2 <=> q[1].ans = "no"
                    /\ Len(q) = 2 => IsTriSeg(q[2], b, OppositeEdge(a, m[1]))
                    /\ e.verdict = "yes" <=> Answered(e, "yes")
                    /\ e.verdict = "no" <=> ~Answered(e, "yes") /\ ~Answered(e, "fail")

\* both outcomes: a pair touching only at V (both tests false) and a pair
\* where only B's triangle is crossed by A's opposite edge
C5_Witness ==
    /\ IsPureTriangle
    /\ \E n \in Entries : \E k \in Entries :
          /\ SharedVertices(trace[n].b, trace[n].c) # {}
          /\ Len(trace[n].queries) = 2
          /\ trace[n].verdict = "yes"
          /\ SharedVertices(trace[k].b, trace[k].c) # {}
          /\ Len(trace[k].queries) = 2
          /\ trace[k].verdict = "no"

----------------------------------------------------------------------------
(* Vocabulary of the properties about whole runs *)

NonTriangular == \E f \in DOMAIN verts : Len(verts[f]) # 3

Coords(f, k) == {pt[Corner(f, i)][k] : i \in 1..3}

CoordMin(f, k) == CHOOSE m \in Coords(f, k) : \A c \in Coords(f, k) : m <= c

CoordMax(f, k) == CHOOSE m \in Coords(f, k) : \A c \in Coords(f, k) : m >= c

\* the extents of the two facets meet on every axis
ExtentsMeet(a, b) ==
    \A k \in 1..3 : CoordMin(a, k) <= CoordMax(b, k) /\ CoordMin(b, k) <= CoordMax(a, k)

Weights == {w \in (0..SampleDen) \X (0..SampleDen) \X (0..SampleDen) :
               w[1] + w[2] + w[3] = SampleDen}

\* points of f's triangle, scaled by SampleDen: its corners, and the points
\* of its edges and interior at the sampled barycentric weights
Samples(f) ==
    LET p1 == pt[Corner(f, 1)]
        p2 == pt[Corner(f, 2)]
        p3 == pt[Corner(f, 3)]
    IN  {<<w[1] * p1[1] + w[2] * p2[1] + w[3] * p3[1],
           w[1] * p1[2] + w[2] * p2[2] + w[3] * p3[2],
           w[1] * p1[3] + w[2] * p2[3] + w[3] * p3[3]>> : w \in Weights}

TrianglesMeet(a, b) == Samples(a) \cap Samples(b) # {}

Visited(a, b) == \E n \in Entries : {trace[n].b, trace[n].c} = {a, b}

\* the narrow-phase rule of the pair of entry e, on the answers the kernel gave
ShouldReport(e) ==
    LET a == e.b
        b == e.c
        q == e.queries
    IN  /\ ~EdgeAdjacent(a, b)
        /\ IF SharedVertices(a, b) # {}
           THEN \E k \in 1..Len(q) :
                   /\ q[k].ans = "yes"
                   /\ \/ IsTriSeg(q[k], a, OppositeEdge(b, FirstEqualPair(a, b)[2]))
                      \/ IsTriSeg(q[k], b, OppositeEdge(a, FirstEqualPair(a, b)[1]))
           ELSE \E k \in 1..Len(q) : q[k].ans = "yes" /\ IsTriTri(q[k], a, b)

Positives == SelectSeq(trace, ShouldReport)

----------------------------------------------------------------------------
(* C1: when the scan of enumeration mode is exhausted, every pair of facets *)
(* with meeting extents was tested once, and the output holds, pair by      *)
(* pair, the triangles (A, B) of exactly the tested pairs that share no     *)
(* edge and intersect by the rule that applies to them.                     *)
C1_EnumerationComplete ==
    (mode = "enum" /\ result = "void" /\ IsPureTriangle) =>
        /\ \A a \in Facets : \A b \in Facets \ {a} : ExtentsMeet(a, b) <=> Visited(a, b)
        /\ Len(out) = 2 * Len(Positives)
        /\ \A k \in 1..Len(Positives) :
              /\ SameTriangle(out[2 * k - 1], TrianglePts(Positives[k].b))
              /\ SameTriangle(out[2 * k], TrianglePts(Positives[k].c))

\* a finished enumeration that reported one pair, filtered another one whose
\* boxes overlap, and never tested a third one whose boxes are apart
C1_Witness ==
    /\ mode = "enum" /\ result = "void" /\ IsPureTriangle
    /\ Len(out) = 2
    /\ \E n \in Entries : trace[n].queries # <<>> /\ ~ShouldReport(trace[n])
    /\ \E a \in Facets : \E b \in Facets \ {a} : ~Visited(a, b)

(* C2: in existence mode no callback is invoked after the first pair that   *)
(* receives an intersection verdict: that pair is the last one visited.     *)
C2_NoCallbackAfterPositive ==
    mode = "exist" =>
        \A n \in Entries :
            trace[n].verdict = "yes" => n = Len(trace) /\ pc = "done"

\* the call returned true while overlapping pairs were still unvisited
C2_Witness ==
    /\ mode = "exist" /\ result = "true"
    /\ todo # {}
    /\ trace[Len(trace)].verdict = "yes"

(* C3: on a pure-triangle mesh existence mode returns true exactly when a   *)
(* visited pair is one enumeration mode reports, returns false exactly when *)
(* the scan completes without such a pair, and never lets the cancellation  *)
(* signal out.                                                              *)
C3_ExistenceAgrees ==
    (mode = "exist" /\ IsPureTriangle) =>
        /\ error # "Throw_at_output_exception"
        /\ out = <<>>
        /\ result = "true" <=> \E n \in Entries : ShouldReport(trace[n])
        /\ result = "false" <=>
              /\ pc = "done" /\ error = "none" /\ todo = {}
              /\ \A n \in Entries : ~ShouldReport(trace[n])
        /\ result = "false" =>
              \A a \in Facets : \A b \in Facets \ {a} : ExtentsMeet(a, b) => Visited(a, b)

\* true after a pair that was not the first one visited
C3_Witness ==
    /\ mode = "exist" /\ IsPureTriangle
    /\ result = "true" /\ error = "none"
    /\ Len(trace) >= 2

(* C6: enumeration mode visits no unordered facet pair twice and never a    *)
(* facet against itself, and the output is the triangles of A then B of the *)
(* positive verdicts in order: two triangles per positive verdict.          *)
C6_TwoTrianglesPerVerdict ==
    mode = "enum" =>
        /\ \A n \in Entries : trace[n].b # trace[n].c
        /\ \A n \in Entries : \A k \in Entries :
              {trace[n].b, trace[n].c} = {trace[k].b, trace[k].c} => n = k
        /\ Len(out) = 2 * Cardinality({n \in Entries : trace[n].verdict = "yes"})
        /\ IsPureTriangle =>
              \A n \in Entries :
                 LET k == Cardinality({i \in 1..n : trace[i].verdict = "yes"})
                 IN  trace[n].verdict = "yes" =>
                        /\ SameTriangle(out[2 * k - 1], TrianglePts(trace[n].b))
                        /\ SameTriangle(out[2 * k], TrianglePts(trace[n].c))

\* two reported pairs, one of them by the first shared-vertex segment test
C6_Witness ==
    /\ mode = "enum"
    /\ Len(out) = 4
    /\ \E n \in Entries :
          /\ trace[n].path = "vertex"
          /\ trace[n].verdict = "yes"
          /\ Len(trace[n].queries) = 1

(* C7: a failure of a geometric predicate ends the scan and leaves either   *)
(* entry point as that failure: it is not retried, and existence mode turns *)
(* it neither into true nor into false.                                     *)
C7_PredicateFailurePropagates ==
    /\ \A n \in Entries :
          Answered(trace[n], "fail") =>
              /\ n = Len(trace)
              /\ trace[n].queries[Len(trace[n].queries)].ans = "fail"
              /\ \A k \in 1..(Len(trace[n].queries) - 1) : trace[n].queries[k].ans # "fail"
              /\ pc = "done"
              /\ result = "raised"
              /\ error = "predicate_failure"
    /\ error = "predicate_failure" =>
          Len(trace) > 0 /\ Answered(trace[Len(trace)], "fail")

\* existence mode, the failure on the second pair visited
C7_Witness ==
    /\ mode = "exist"
    /\ error = "predicate_failure"
    /\ Len(trace) = 2

(* C8 as stated: on a mesh that is not a pure triangulation both entry      *)
(* points fail with the precondition violation before any box is built or   *)
(* pair visited.                                                            *)
C8_FailsBeforeAnyWork ==
    NonTriangular =>
        /\ boxes = <<>> /\ todo = {} /\ trace = <<>> /\ out = <<>>
        /\ result \in {"pending", "raised"}
        /\ pc \in {"start", "done"}
        /\ pc = "done" => result = "raised" /\ error = "assertion_failure"

(* C8 amended: the same, in a build where CGAL_assertion is compiled in.    *)
C8_FailsBeforeAnyWorkWhenChecked ==
    (NonTriangular /\ checks) =>
        /\ boxes = <<>> /\ todo = {} /\ trace = <<>> /\ out = <<>>
        /\ result \in {"pending", "raised"}
        /\ pc \in {"start", "done"}
        /\ pc = "done" => result = "raised" /\ error = "assertion_failure"

\* existence mode has failed on a mesh with a quadrilateral
C8_Witness ==
    /\ NonTriangular /\ checks
    /\ mode = "exist"
    /\ pc = "done" /\ error = "assertion_failure"

(* C10: there is one box per facet, tagged with the facet, spanning on each *)
(* axis the min and max of its three vertices, so containing the triangle;  *)
(* two facets whose triangles have a point in common have overlapping boxes *)
(* and are a pair the scan visits.                                          *)
C10_BoxCoversTriangle ==
    IsPureTriangle =>
        /\ Len(boxes) <= Cardinality(Facets)
        /\ pc \in {"scan", "done"} => Len(boxes) = Cardinality(Facets)
        /\ \A f \in 1..Len(boxes) :
              /\ boxes[f].handle = f
              /\ \A k \in 1..3 :
                    boxes[f].lo[k] = CoordMin(f, k) /\ boxes[f].hi[k] = CoordMax(f, k)
              /\ \A p \in Samples(f) : \A k \in 1..3 :
                    /\ SampleDen * boxes[f].lo[k] <= p[k]
                    /\ p[k] <= SampleDen * boxes[f].hi[k]
        /\ pc \in {"scan", "done"} =>
              \A a \in Facets : \A b \in Facets \ {a} :
                 \/ /\ \A k \in 1..3 : /\ boxes[a].lo[k] <= boxes[b].hi[k]
                                       /\ boxes[b].lo[k] <= boxes[a].hi[k]
                    /\ Visited(a, b) \/ ({a, b} \in todo /\ result \notin {"void", "false"})
                 \/ ~TrianglesMeet(a, b)

\* a finished scan that tested two triangles with no vertex handle in common
\* that cross, each having three different corner points
C10_Witness ==
    /\ IsPureTriangle /\ result = "void"
    /\ \E n \in Entries :
          /\ SharedVertices(trace[n].b, trace[n].c) = {}
          /\ TrianglesMeet(trace[n].b, trace[n].c)
          /\ Cardinality({TrianglePts(trace[n].b)[i] : i \in 1..3}) = 3
          /\ Cardinality({TrianglePts(trace[n].c)[i] : i \in 1..3}) = 3
          /\ \E k \in 1..3 : boxes[trace[n].b].lo[k] # boxes[trace[n].c].lo[k]

====
